---- MODULE Spec2Model ----
(***************************************************************************)
(* Model of elfcat's src/elf/parser.rs: the Ranges annotation store, the   *)
(* identity (e_ident) record, and the ParsedElf::from_bytes pipeline.      *)
(* Byte offsets are 0-based as in the source; TLA+ sequences are 1-based,  *)
(* so slot/byte i of the source is element i + 1 here.                     *)
(***************************************************************************)
EXTENDS Integers, Sequences, FiniteSets, TLC

VARIABLES buf, pc, ident, ranges, information, invoked, parserRet, result,
          registered, identRows, call

vars == <<buf, pc, ident, ranges, information, invoked, parserRet, result,
          registered, identRows, call>>

(***************************************************************************)
(* Bounds of the model.                                                    *)
(***************************************************************************)
MaxBufLen == 18
MaxParserRanges == 1
MaxCapacity == 3
MaxCalls == 2

(***************************************************************************)
(* super::defs (not part of the sources at hand): identity-block offsets   *)
(* and legal values, as fixed by the ELF format.                           *)
(***************************************************************************)
ELF_EI_NIDENT == 16
ELF_EI_CLASS == 4
ELF_EI_DATA == 5
ELF_EI_VERSION == 6
ELF_EI_OSABI == 7
ELF_EI_ABIVERSION == 8
ELF_CLASS32 == 1
ELF_CLASS64 == 2
ELF_DATA2LSB == 1
ELF_DATA2MSB == 2
ELF_EV_CURRENT == 1
ELF_OSABI_SYSV == 0

abi_to_string(abi) ==
    CASE abi = ELF_OSABI_SYSV -> "SysV"
      [] abi = 3 -> "Linux"
      [] OTHER -> "Unknown"

\* [0x7f, 'E' as u8, 'L' as u8, 'F' as u8]
ElfMagic == <<127, 69, 76, 70>>

filename == "a.out"

(***************************************************************************)
(* RangeType                                                               *)
(***************************************************************************)
End == [tag |-> "End", class |-> ""]
Ident == [tag |-> "Ident", class |-> ""]
FileHeader == [tag |-> "FileHeader", class |-> ""]
ProgramHeader == [tag |-> "ProgramHeader", class |-> ""]
HeaderDetail(class) == [tag |-> "HeaderDetail", class |-> class]

RangeType == {End, Ident, FileHeader, ProgramHeader, HeaderDetail("magic")}

(***************************************************************************)
(* format!("{}", x) for an unsigned integer: its decimal digits.           *)
(***************************************************************************)
DigitChar == <<"0", "1", "2", "3", "4", "5", "6", "7", "8", "9">>

RECURSIVE FormatDecimal(_)
FormatDecimal(x) ==
    IF x < 10 THEN DigitChar[x + 1]
    ELSE FormatDecimal(x \div 10) \o DigitChar[(x % 10) + 1]

(***************************************************************************)
(* Ranges                                                                  *)
(***************************************************************************)
Ranges_new(capacity) == [i \in 1..capacity |-> <<>>]

\* Mutation: the End marker is pushed at the start offset.
add_range_EndAtStart(data, start, end, range_type) ==
    IF start >= Len(data) THEN [data |-> data, ret |-> "panic"]
    ELSE LET d1 == [data EXCEPT ![start + 1] = Append(@, range_type)]
         IN  [data |-> [d1 EXCEPT ![start + 1] = Append(@, End)], ret |-> "ok"]

\* self.data[start].push(range_type); self.data[start + end - 1].push(End);
\* An index past the vector, or start + end - 1 below zero (a panic in a
\* build with overflow checks, a wrap to usize::MAX and hence an index past
\* the vector in one without), panics at the statement that indexes.
add_range(data, start, end, range_type) ==
    IF start >= Len(data) THEN [data |-> data, ret |-> "panic"]
    ELSE LET d1 == [data EXCEPT ![start + 1] = Append(@, range_type)]
         IN  IF start + end - 1 < 0 \/ start + end - 1 >= Len(d1)
             THEN [data |-> d1, ret |-> "panic"]
             ELSE [data |-> [d1 EXCEPT ![start + end] = Append(@, End)],
                   ret |-> "ok"]

lookup_range_ends(data, point) ==
    Cardinality({k \in 1..Len(data[point + 1]) : data[point + 1][k] = End})

(***************************************************************************)
(* ParsedIdent                                                             *)
(***************************************************************************)
NoIdent == [magic |-> <<>>, class |-> 0, endianness |-> 0, version |-> 0,
            abi |-> 0, abi_ver |-> 0]

ParsedIdent_from_bytes(b) ==
    [magic |-> <<b[1], b[2], b[3], b[4]>>,
     class |-> b[ELF_EI_CLASS + 1],
     endianness |-> b[ELF_EI_DATA + 1],
     version |-> b[ELF_EI_VERSION + 1],
     abi |-> b[ELF_EI_OSABI + 1],
     abi_ver |-> b[ELF_EI_ABIVERSION + 1]]

(***************************************************************************)
(* Result values                                                           *)
(***************************************************************************)
NoResult == [tag |-> "None"]
Ok == [tag |-> "Ok"]
Err(msg) == [tag |-> "Err", msg |-> msg]

ErrTooSmall == "file is smaller than ELF header's e_ident"
ErrBadMagic == "mismatched magic: not an ELF file"
ErrUnknownClass(x) == "Unknown bitness: " \o FormatDecimal(x)
ErrUnknownEndianness(x) == "Unknown endianness: " \o FormatDecimal(x)
ErrStructural == "structural parse failed"

(***************************************************************************)
(* ParsedElf::push_ident_info.  The value of each row is computed before   *)
(* the row is pushed, so an early return leaves the rows pushed so far.    *)
(***************************************************************************)
ClassRow(id) ==
    <<"class", "Object class",
      IF id.class = ELF_CLASS32 THEN "32-bit" ELSE "64-bit">>

DataRow(id) ==
    <<"data", "Data encoding",
      IF id.endianness = ELF_DATA2LSB THEN "Little endian" ELSE "Big endian">>

VerRow(id) == <<"ver", "Uncommon version(!)", FormatDecimal(id.version)>>

AbiRow(id) ==
    <<"abi", IF id.abi = ELF_OSABI_SYSV THEN "ABI" ELSE "Uncommon ABI(!)",
      abi_to_string(id.abi)>>

AbiVerRow(id) ==
    <<"abi_ver",
      IF id.abi = ELF_OSABI_SYSV /\ id.abi_ver # 0
      THEN "Uncommon ABI version(!)" ELSE "ABI version",
      FormatDecimal(id.abi_ver)>>

\* Mutation: any endianness other than little is taken to be big.
push_ident_info_LaxData(id, info) ==
    IF id.class \notin {ELF_CLASS32, ELF_CLASS64}
    THEN [information |-> info, ret |-> Err(ErrUnknownClass(id.class))]
    ELSE
    LET i1 == Append(info, ClassRow(id))
        i2 == Append(i1, DataRow(id))
        i3 == IF id.version # ELF_EV_CURRENT THEN Append(i2, VerRow(id)) ELSE i2
        i4 == Append(i3, AbiRow(id))
        i5 == IF ~(id.abi = ELF_OSABI_SYSV /\ id.abi_ver = 0)
              THEN Append(i4, AbiVerRow(id)) ELSE i4
    IN  [information |-> i5, ret |-> Ok]

\* Mutation: the abi_ver row is suppressed whenever abi_ver is 0.
push_ident_info_AbiVerZero(id, info) ==
    IF id.class \notin {ELF_CLASS32, ELF_CLASS64}
    THEN [information |-> info, ret |-> Err(ErrUnknownClass(id.class))]
    ELSE
    LET i1 == Append(info, ClassRow(id))
    IN
    IF id.endianness \notin {ELF_DATA2LSB, ELF_DATA2MSB}
    THEN [information |-> i1, ret |-> Err(ErrUnknownEndianness(id.endianness))]
    ELSE
    LET i2 == Append(i1, DataRow(id))
        i3 == IF id.version # ELF_EV_CURRENT THEN Append(i2, VerRow(id)) ELSE i2
        i4 == Append(i3, AbiRow(id))
        i5 == IF ~(id.abi_ver = 0)
              THEN Append(i4, AbiVerRow(id)) ELSE i4
    IN  [information |-> i5, ret |-> Ok]

\* Mutation: the abi row is pushed only for an uncommon ABI.
push_ident_info_NoDefaultAbi(id, info) ==
    IF id.class \notin {ELF_CLASS32, ELF_CLASS64}
    THEN [information |-> info, ret |-> Err(ErrUnknownClass(id.class))]
    ELSE
    LET i1 == Append(info, ClassRow(id))
    IN
    IF id.endianness \notin {ELF_DATA2LSB, ELF_DATA2MSB}
    THEN [information |-> i1, ret |-> Err(ErrUnknownEndianness(id.endianness))]
    ELSE
    LET i2 == Append(i1, DataRow(id))
        i3 == IF id.version # ELF_EV_CURRENT THEN Append(i2, VerRow(id)) ELSE i2
        i4 == IF id.abi # ELF_OSABI_SYSV THEN Append(i3, AbiRow(id)) ELSE i3
        i5 == IF ~(id.abi = ELF_OSABI_SYSV /\ id.abi_ver = 0)
              THEN Append(i4, AbiVerRow(id)) ELSE i4
    IN  [information |-> i5, ret |-> Ok]

push_ident_info(id, info) ==
    IF id.class \notin {ELF_CLASS32, ELF_CLASS64}
    THEN [information |-> info, ret |-> Err(ErrUnknownClass(id.class))]
    ELSE
    LET i1 == Append(info, ClassRow(id))
    IN
    IF id.endianness \notin {ELF_DATA2LSB, ELF_DATA2MSB}
    THEN [information |-> i1, ret |-> Err(ErrUnknownEndianness(id.endianness))]
    ELSE
    LET i2 == Append(i1, DataRow(id))
        i3 == IF id.version # ELF_EV_CURRENT THEN Append(i2, VerRow(id)) ELSE i2
        i4 == Append(i3, AbiRow(id))
        i5 == IF ~(id.abi = ELF_OSABI_SYSV /\ id.abi_ver = 0)
              THEN Append(i4, AbiVerRow(id)) ELSE i4
    IN  [information |-> i5, ret |-> Ok]

(***************************************************************************)
(* ParsedElf::add_ident_ranges: the eight add_range calls, in order.       *)
(***************************************************************************)
\* Mutation: the pad range starts one byte early (8, 8) instead of (9, 7).
IdentRanges_LongPad ==
    << <<0, ELF_EI_NIDENT, Ident>>,
       <<0, 4, HeaderDetail("magic")>>,
       <<4, 1, HeaderDetail("class")>>,
       <<5, 1, HeaderDetail("data")>>,
       <<6, 1, HeaderDetail("ver")>>,
       <<7, 1, HeaderDetail("abi")>>,
       <<8, 1, HeaderDetail("abi_ver")>>,
       <<8, 8, HeaderDetail("pad")>> >>

IdentRanges ==
    << <<0, ELF_EI_NIDENT, Ident>>,
       <<0, 4, HeaderDetail("magic")>>,
       <<4, 1, HeaderDetail("class")>>,
       <<5, 1, HeaderDetail("data")>>,
       <<6, 1, HeaderDetail("ver")>>,
       <<7, 1, HeaderDetail("abi")>>,
       <<8, 1, HeaderDetail("abi_ver")>>,
       <<9, 7, HeaderDetail("pad")>> >>

\* Calls add_range for each element of rs in turn; a panic ends the sequence.
RECURSIVE add_ranges(_, _)
add_ranges(data, rs) ==
    IF rs = <<>> THEN [data |-> data, ret |-> "ok"]
    ELSE LET r == add_range(data, Head(rs)[1], Head(rs)[2], Head(rs)[3])
         IN  IF r.ret = "panic" THEN r ELSE add_ranges(r.data, Tail(rs))

add_ident_ranges(data) == add_ranges(data, IdentRanges)

\* The log entry of a registered range.
Reg(r, by) == [start |-> r[1], len |-> r[2], type |-> r[3], by |-> by]

RegAll(rs, by) == [i \in 1..Len(rs) |-> Reg(rs[i], by)]

(***************************************************************************)
(* Input buffers: a length, the nine identity bytes the parser reads, and  *)
(* zero bytes after them.  A buffer shorter than nine bytes is the prefix. *)
(***************************************************************************)
MagicChoices ==
    {ElfMagic} \cup {[ElfMagic EXCEPT ![i] = 0] : i \in 1..4}
ClassChoices == {0, ELF_CLASS32, ELF_CLASS64, 3}
DataChoices == {ELF_DATA2LSB, ELF_DATA2MSB, 3}
VersionChoices == {ELF_EV_CURRENT, 2}
AbiChoices == {ELF_OSABI_SYSV, 3}
AbiVerChoices == {0, 3, 10, 255}

MkBuf(n, m, c, d, v, a, av) ==
    [i \in 1..n |->
        CASE i <= 4 -> m[i]
          [] i = ELF_EI_CLASS + 1 -> c
          [] i = ELF_EI_DATA + 1 -> d
          [] i = ELF_EI_VERSION + 1 -> v
          [] i = ELF_EI_OSABI + 1 -> a
          [] i = ELF_EI_ABIVERSION + 1 -> av
          [] OTHER -> 0]

Buffers ==
    {MkBuf(n, m, c, d, v, a, av) :
        n \in 0..MaxBufLen, m \in MagicChoices, c \in ClassChoices,
        d \in DataChoices, v \in VersionChoices, a \in AbiChoices,
        av \in AbiVerChoices}

NoCall == [start |-> 0, end |-> 0, range_type |-> End, before |-> <<>>,
           ret |-> "none"]

(***************************************************************************)
(* ParsedElf::from_bytes, one action per stage.                            *)
(***************************************************************************)
Init ==
    /\ buf \in Buffers
    /\ pc = "SizeGuard"
    /\ ident = NoIdent
    /\ ranges = <<>>
    /\ information = <<>>
    /\ invoked = "none"
    /\ parserRet = NoResult
    /\ result = NoResult
    /\ registered = <<>>
    /\ identRows = <<>>
    /\ call = NoCall

\* Mutation: the guard covers only the bytes ParsedIdent::from_bytes reads.
SizeGuard_ReadBytesOnly ==
    /\ pc = "SizeGuard"
    /\ IF Len(buf) < ELF_EI_ABIVERSION + 1
       THEN /\ result' = Err(ErrTooSmall)
            /\ pc' = "Failed"
       ELSE /\ result' = result
            /\ pc' = "IdentityParse"
    /\ UNCHANGED <<buf, ident, ranges, information, invoked, parserRet,
                   registered, identRows, call>>

\* if buf.len() < ELF_EI_NIDENT as usize { return Err(..) }
SizeGuard ==
    /\ pc = "SizeGuard"
    /\ IF Len(buf) < ELF_EI_NIDENT
       THEN /\ result' = Err(ErrTooSmall)
            /\ pc' = "Failed"
       ELSE /\ result' = result
            /\ pc' = "IdentityParse"
    /\ UNCHANGED <<buf, ident, ranges, information, invoked, parserRet,
                   registered, identRows, call>>

\* Mutation: only the first three bytes of the magic are compared.
IdentityParse_ThreeBytes ==
    /\ pc = "IdentityParse"
    /\ ident' = ParsedIdent_from_bytes(buf)
    /\ IF SubSeq(ident'.magic, 1, 3) # SubSeq(ElfMagic, 1, 3)
       THEN /\ result' = Err(ErrBadMagic)
            /\ pc' = "Failed"
            /\ UNCHANGED <<ranges, information>>
       ELSE /\ ranges' = Ranges_new(Len(buf))
            /\ information' = <<>>
            /\ result' = result
            /\ pc' = "ClassDispatch"
    /\ UNCHANGED <<buf, invoked, parserRet, registered, identRows, call>>

\* let ident = ParsedIdent::from_bytes(&buf); the magic check; then
\* Ranges::new(buf.len()) and the empty information vector.
IdentityParse ==
    /\ pc = "IdentityParse"
    /\ ident' = ParsedIdent_from_bytes(buf)
    /\ IF ident'.magic # ElfMagic
       THEN /\ result' = Err(ErrBadMagic)
            /\ pc' = "Failed"
            /\ UNCHANGED <<ranges, information>>
       ELSE /\ ranges' = Ranges_new(Len(buf))
            /\ information' = <<>>
            /\ result' = result
            /\ pc' = "ClassDispatch"
    /\ UNCHANGED <<buf, invoked, parserRet, registered, identRows, call>>

\* if ident.class == ELF_CLASS32 { elf32::parse(..) } else { elf64::parse(..) }
ClassDispatch ==
    /\ pc = "ClassDispatch"
    /\ invoked' = IF ident.class = ELF_CLASS32 THEN "elf32" ELSE "elf64"
    /\ pc' = "StructuralParse"
    /\ UNCHANGED <<buf, ident, ranges, information, parserRet, result,
                   registered, identRows, call>>

(***************************************************************************)
(* elf32::parse / elf64::parse (not part of the sources at hand): a parser *)
(* registers ranges that lie within the buffer, appends rows, and returns  *)
(* Ok or an error string.                                                  *)
(***************************************************************************)
ParserRanges(n) ==
    {r \in {<<s, l, t>> : s \in {0, ELF_EI_NIDENT - 1, n - 1},
                          l \in {1, ELF_EI_NIDENT, n},
                          t \in {FileHeader, ProgramHeader}} :
        r[1] + r[2] <= n}

ParserRows == {<<>>, << <<"e_type", "Type", "Executable">> >>}

StructuralAddRange ==
    /\ pc = "StructuralParse"
    /\ Len(registered) < MaxParserRanges
    /\ \E r \in ParserRanges(Len(buf)) :
          /\ ranges' = add_range(ranges, r[1], r[2], r[3]).data
          /\ registered' = Append(registered, Reg(r, invoked))
    /\ UNCHANGED <<buf, pc, ident, information, invoked, parserRet, result,
                   identRows, call>>

\* The parser returns; `?` hands an Err to the caller of from_bytes.
StructuralReturn ==
    /\ pc = "StructuralParse"
    /\ \E rows \in ParserRows : information' = information \o rows
    /\ \/ /\ parserRet' = Ok
          /\ result' = result
          /\ pc' = "IdentitySummary"
       \/ /\ parserRet' = Err(ErrStructural)
          /\ result' = Err(ErrStructural)
          /\ pc' = "Failed"
    /\ UNCHANGED <<buf, ident, ranges, invoked, registered, identRows, call>>

\* ParsedElf::parse_ident(&ident, &mut information, &mut ranges)?; then
\* Ok(ParsedElf { filename, information, contents: buf, ranges }).
IdentitySummary ==
    /\ pc = "IdentitySummary"
    /\ LET pushed == push_ident_info(ident, information)
           added == add_ident_ranges(ranges)
       IN  /\ information' = pushed.information
           /\ identRows' = SubSeq(pushed.information, Len(information) + 1,
                                  Len(pushed.information))
           /\ IF pushed.ret.tag = "Err"
              THEN /\ result' = pushed.ret
                   /\ pc' = "Failed"
                   /\ UNCHANGED <<ranges, registered>>
              ELSE /\ ranges' = added.data
                   /\ IF added.ret = "panic"
                      THEN /\ result' = [tag |-> "Panic"]
                           /\ pc' = "Aborted"
                           /\ UNCHANGED registered
                      ELSE /\ registered' =
                                 registered \o RegAll(IdentRanges, "ident")
                           /\ result' = [tag |-> "Ok",
                                         filename |-> filename,
                                         information |-> pushed.information,
                                         contents |-> buf,
                                         ranges |-> added.data]
                           /\ pc' = "Done"
    /\ UNCHANGED <<buf, ident, invoked, parserRet, call>>

Next ==
    \/ SizeGuard
    \/ IdentityParse
    \/ ClassDispatch
    \/ StructuralAddRange
    \/ StructuralReturn
    \/ IdentitySummary

Spec == Init /\ [][Next]_vars

(***************************************************************************)
(* The Ranges store used on its own: a store of some capacity and a        *)
(* sequence of add_range calls with arbitrary arguments.  `call` records   *)
(* the last call, the store before it, and how it ended.                   *)
(***************************************************************************)
InitRanges ==
    /\ \E capacity \in 0..MaxCapacity : ranges = Ranges_new(capacity)
    /\ pc = "Ranges"
    /\ buf = <<>>
    /\ ident = NoIdent
    /\ information = <<>>
    /\ invoked = "none"
    /\ parserRet = NoResult
    /\ result = NoResult
    /\ registered = <<>>
    /\ identRows = <<>>
    /\ call = NoCall

AddRange ==
    /\ pc = "Ranges"
    /\ Len(registered) < MaxCalls
    /\ \E start \in 0..MaxCapacity, end \in 0..(MaxCapacity + 1),
          range_type \in RangeType :
          LET r == add_range(ranges, start, end, range_type)
          IN  /\ ranges' = r.data
              /\ call' = [start |-> start, end |-> end,
                          range_type |-> range_type, before |-> ranges,
                          ret |-> r.ret]
              /\ registered' =
                    Append(registered, Reg(<<start, end, range_type>>, "caller"))
              /\ pc' = IF r.ret = "panic" THEN "Aborted" ELSE "Ranges"
    /\ UNCHANGED <<buf, ident, information, invoked, parserRet, result,
                   identRows>>

NextRanges == AddRange

SpecRanges == InitRanges /\ [][NextRanges]_vars

(***************************************************************************)
(* Helpers of the properties.                                              *)
(***************************************************************************)
Terminal == pc \in {"Failed", "Done", "Aborted"}

BufMagicOk == Len(buf) >= ELF_EI_NIDENT /\ SubSeq(buf, 1, 4) = ElfMagic

BufClass == buf[ELF_EI_CLASS + 1]

BufData == buf[ELF_EI_DATA + 1]

\* The decimal text of the byte values the inputs use, written out.
DecimalText == [n \in {0, 2, 3, 10, 255} |->
                  CASE n = 0 -> "0" [] n = 2 -> "2" [] n = 3 -> "3"
                    [] n = 10 -> "10" [] n = 255 -> "255"]

RECURSIVE SumLen(_)
SumLen(regs) == IF regs = <<>> THEN 0 ELSE Head(regs).len + SumLen(Tail(regs))

IsIdentSub(r) == r.by = "ident" /\ r.type.tag = "HeaderDetail"

HasMarker(data, point, t) ==
    \E k \in 1..Len(data[point + 1]) : data[point + 1][k] = t

EndOf(r) == r.start + r.len - 1

EndingAt(regs, point) ==
    Cardinality({j \in 1..Len(regs) : EndOf(regs[j]) = point})

RowsWithId(rows, id) == {i \in 1..Len(rows) : rows[i][1] = id}

(***************************************************************************)
(* C1: a buffer shorter than 16 bytes fails with the too-small error, and  *)
(* neither structural parser is invoked.                                   *)
(***************************************************************************)
C1_TooSmall ==
    Len(buf) < ELF_EI_NIDENT =>
        /\ invoked = "none"
        /\ pc \in {"SizeGuard", "Failed"}
        /\ pc = "SizeGuard" => result = NoResult
        /\ pc = "Failed" => result = Err(ErrTooSmall)

C1_Witness ==
    /\ pc = "Failed"
    /\ Len(buf) = ELF_EI_NIDENT - 1
    /\ SubSeq(buf, 1, 4) = ElfMagic
    /\ result = Err(ErrTooSmall)
    /\ invoked = "none"

(***************************************************************************)
(* C2: a buffer of at least 16 bytes whose first four bytes are not the    *)
(* magic fails with the bad-magic error whatever its later bytes are, and  *)
(* no structural parser is invoked.                                        *)
(***************************************************************************)
C2_BadMagic ==
    (Len(buf) >= ELF_EI_NIDENT /\ SubSeq(buf, 1, 4) # ElfMagic) =>
        /\ invoked = "none"
        /\ pc \in {"SizeGuard", "IdentityParse", "Failed"}
        /\ pc # "Failed" => result = NoResult
        /\ pc = "Failed" => result = Err(ErrBadMagic)

C2_Witness ==
    /\ pc = "Failed"
    /\ Len(buf) >= ELF_EI_NIDENT
    /\ buf[4] # ElfMagic[4]
    /\ BufClass = ELF_CLASS64
    /\ result = Err(ErrBadMagic)
    /\ invoked = "none"

(***************************************************************************)
(* C3: a buffer of at least 16 bytes with valid magic and a class byte     *)
(* that is neither 32-bit nor 64-bit fails with the unknown-class error    *)
(* before the dispatch: no structural parser is invoked, and the error     *)
(* reported is the unknown-class one.                                      *)
(***************************************************************************)
C3_UnknownClassGate ==
    (BufMagicOk /\ BufClass \notin {ELF_CLASS32, ELF_CLASS64}) =>
        /\ invoked = "none"
        /\ Terminal =>
              result = Err("Unknown bitness: " \o DecimalText[BufClass])

(***************************************************************************)
(* C4: after an in-bounds add_range(s, l, T) with l >= 1, the count of     *)
(* End markers at s + l - 1 is one more than before, and the counts at     *)
(* the offsets s .. s + l - 2 are as before.  As claimed, for every T.     *)
(***************************************************************************)
CallInBounds ==
    /\ call.ret # "none"
    /\ call.end >= 1
    /\ call.start + call.end - 1 < Len(call.before)

CallEffect ==
    /\ call.ret = "ok"
    /\ lookup_range_ends(ranges, call.start + call.end - 1)
          = lookup_range_ends(call.before, call.start + call.end - 1) + 1
    /\ \A p \in call.start..(call.start + call.end - 2) :
          lookup_range_ends(ranges, p) = lookup_range_ends(call.before, p)

C4_EndCountAnyType == CallInBounds => CallEffect

\* C4, amended: the same for every T other than End.
C4_EndCount == (CallInBounds /\ call.range_type # End) => CallEffect

C4_Witness ==
    /\ CallInBounds
    /\ call.range_type = ProgramHeader
    /\ call.end >= 2
    /\ call.ret = "ok"
    /\ lookup_range_ends(call.before, call.start + call.end - 1) >= 1
    /\ lookup_range_ends(ranges, call.start + call.end - 1) >= 2

(***************************************************************************)
(* C5: for the identity {64-bit, little endian, current version, standard  *)
(* ABI, ABI version 0} push_ident_info appends exactly two rows, class     *)
(* "64-bit" then data "Little endian", and no ver and no abi_ver row.      *)
(***************************************************************************)
DefaultIdent64 ==
    /\ pc = "Done"
    /\ ident.class = ELF_CLASS64
    /\ ident.endianness = ELF_DATA2LSB
    /\ ident.version = ELF_EV_CURRENT
    /\ ident.abi = ELF_OSABI_SYSV
    /\ ident.abi_ver = 0

ClassAndDataRows ==
    /\ Len(identRows) >= 2
    /\ identRows[1][1] = "class" /\ identRows[1][3] = "64-bit"
    /\ identRows[2][1] = "data" /\ identRows[2][3] = "Little endian"
    /\ RowsWithId(identRows, "ver") = {}
    /\ RowsWithId(identRows, "abi_ver") = {}

C5_ExactlyTwoRows ==
    DefaultIdent64 => (ClassAndDataRows /\ Len(identRows) = 2)

\* C5, amended: exactly three rows, class "64-bit", data "Little endian"
\* and an abi row labelled "ABI"; no ver and no abi_ver row.
C5_DefaultRows ==
    DefaultIdent64 =>
        /\ ClassAndDataRows
        /\ Len(identRows) = 3
        /\ identRows[3][1] = "abi" /\ identRows[3][2] = "ABI"
        /\ information = SubSeq(information, 1, Len(information) - 3)
                            \o identRows

C5_Witness ==
    /\ DefaultIdent64
    /\ Len(identRows) = 3
    /\ Len(information) = 4

(***************************************************************************)
(* C6: when push_ident_info succeeds, an abi_ver row is appended iff not   *)
(* (abi standard and abi_ver 0); its value is the decimal text of abi_ver; *)
(* its label is the anomalous one when abi is standard (and abi_ver is     *)
(* nonzero) and the plain one when abi is not standard.                    *)
(***************************************************************************)
C6_AbiVerRow ==
    pc = "Done" =>
        LET rows == RowsWithId(identRows, "abi_ver")
        IN  /\ (rows # {}) <=>
                  ~(ident.abi = ELF_OSABI_SYSV /\ ident.abi_ver = 0)
            /\ Cardinality(rows) <= 1
            /\ \A i \in rows :
                  /\ i = Len(identRows)
                  /\ identRows[i][3] = DecimalText[ident.abi_ver]
                  /\ identRows[i][2] =
                        IF ident.abi = ELF_OSABI_SYSV
                        THEN "Uncommon ABI version(!)" ELSE "ABI version"

C6_Witness ==
    /\ pc = "Done"
    /\ ident.abi = ELF_OSABI_SYSV
    /\ ident.abi_ver = 3
    /\ identRows[Len(identRows)] = <<"abi_ver", "Uncommon ABI version(!)", "3">>

(***************************************************************************)
(* C7: the sum of the lengths of all registered ranges never exceeds the   *)
(* buffer length.                                                          *)
(***************************************************************************)
C7_SumWithinBuffer == SumLen(registered) <= Len(buf)

\* C7, amended: after a successful parse every identity range lies within
\* the buffer and the identity block's seven sub-ranges sum to 16 bytes,
\* which never exceeds the buffer length; with the enclosing 16-byte range
\* the registered lengths sum to at least 32.
C7_SubRangesWithinBuffer ==
    pc = "Done" =>
        /\ \A i \in 1..Len(registered) :
              registered[i].by = "ident" =>
                 /\ registered[i].len >= 1
                 /\ registered[i].start + registered[i].len <= Len(buf)
        /\ SumLen(SelectSeq(registered, IsIdentSub)) = ELF_EI_NIDENT
        /\ SumLen(SelectSeq(registered, IsIdentSub)) <= Len(buf)
        /\ SumLen(registered) >= 2 * ELF_EI_NIDENT

C7_Witness ==
    /\ pc = "Done"
    /\ Len(buf) = ELF_EI_NIDENT
    /\ SumLen(registered) > Len(buf)
    /\ \E i \in 1..Len(registered) : registered[i].by # "ident"

(***************************************************************************)
(* C8: in the result of a successful parse every registered range has its  *)
(* type marker in the slot of its start, and the slot of its end offset    *)
(* holds exactly one End marker.                                           *)
(***************************************************************************)
C8_ExactlyOneEnd ==
    pc = "Done" =>
        \A i \in 1..Len(registered) :
            /\ HasMarker(result.ranges, registered[i].start, registered[i].type)
            /\ lookup_range_ends(result.ranges, EndOf(registered[i])) = 1

\* C8, amended: the slot of its end offset holds one End marker for each
\* registered range ending there, hence at least one (slot 15 holds at
\* least two: the identity block and its pad both end there).
C8_OneEndPerRange ==
    pc = "Done" =>
        /\ \A i \in 1..Len(registered) :
              /\ HasMarker(result.ranges, registered[i].start,
                           registered[i].type)
              /\ lookup_range_ends(result.ranges, EndOf(registered[i]))
                    = EndingAt(registered, EndOf(registered[i]))
              /\ lookup_range_ends(result.ranges, EndOf(registered[i])) >= 1
        /\ lookup_range_ends(result.ranges, ELF_EI_NIDENT - 1) >= 2

C8_Witness ==
    /\ pc = "Done"
    /\ Len(registered) > Len(IdentRanges)
    /\ lookup_range_ends(result.ranges, ELF_EI_NIDENT - 1) = 3
    /\ lookup_range_ends(result.ranges, 3) = 1

(***************************************************************************)
(* C9: add_range with a violated precondition (length 0, or an end or a    *)
(* start offset past the store) returns a validation error and leaves      *)
(* every slot unchanged.                                                   *)
(***************************************************************************)
CallViolates ==
    /\ call.ret # "none"
    /\ \/ call.end = 0
       \/ call.start + call.end - 1 >= Len(call.before)
       \/ call.start >= Len(call.before)

C9_ValidationError ==
    CallViolates => (call.ret = "error" /\ ranges = call.before)

(***************************************************************************)
(* C10: with at least 16 bytes, valid magic, valid class and an unknown    *)
(* endianness byte, the parser selected by the class runs first; if it     *)
(* fails its error is the result; if it succeeds the run fails in the      *)
(* identity summary with the unknown-endianness error; no identity range   *)
(* is registered and no ParsedElf is returned.                             *)
(***************************************************************************)
BadDataBuf ==
    /\ BufMagicOk
    /\ BufClass \in {ELF_CLASS32, ELF_CLASS64}
    /\ BufData \notin {ELF_DATA2LSB, ELF_DATA2MSB}

C10_EndiannessAfterParser ==
    BadDataBuf =>
        /\ pc \notin {"Done", "Aborted"}
        /\ result.tag \in {"None", "Err"}
        /\ Terminal <=> result.tag = "Err"
        /\ pc \in {"StructuralParse", "IdentitySummary", "Failed"} =>
              invoked = IF BufClass = ELF_CLASS32 THEN "elf32" ELSE "elf64"
        /\ pc \in {"SizeGuard", "IdentityParse", "ClassDispatch"} =>
              invoked = "none"
        /\ pc = "IdentitySummary" => parserRet = Ok
        /\ pc = "Failed" =>
              /\ parserRet.tag \in {"Ok", "Err"}
              /\ parserRet.tag = "Err" => result = parserRet
              /\ parserRet.tag = "Ok" =>
                    result = Err("Unknown endianness: "
                                    \o DecimalText[BufData])
        /\ \A i \in 1..Len(registered) : registered[i].by # "ident"
        /\ \A p \in 0..(Len(ranges) - 1) : ~HasMarker(ranges, p, Ident)

C10_Witness ==
    /\ BadDataBuf
    /\ pc = "Failed"
    /\ invoked = "elf32"
    /\ parserRet = Ok
    /\ result = Err("Unknown endianness: 3")
    /\ Len(registered) = 1
    /\ Len(information) >= 1

====
